---- MODULE Spec2Model ----
(***************************************************************************)
(* Model of iota-client/src/api/address.rs: GetAddressesBuilder::get_all,  *)
(* GetAddressesBuilder::finish, generate_address and search_address.       *)
(*                                                                         *)
(* Integers are scaled: a u32 has Bits bits instead of 32, so HARDENED is  *)
(* 2^(Bits-1) instead of 2^31; a usize is wider than a u32, so an index    *)
(* may exceed the u32 range and `as u32` truncates it.                     *)
(* A raw address is the hash of the public key of the key derived at a     *)
(* path; derivation and hashing are taken to be injective, so the raw      *)
(* address is represented by the path it was derived at.                   *)
(***************************************************************************)
EXTENDS Integers, Sequences, FiniteSets, TLC

\* ---- bounds ----
Bits == 2
MaxIndex == 6
MaxAccount == 2

\* ---- integer arithmetic of the code ----
U32Modulus == 2 ^ Bits

HARDENED == 2 ^ (Bits - 1)

AsU32(x) == x % U32Modulus

Overflows(a, b) == a + b >= U32Modulus

WrappingAdd(a, b) == (a + b) % U32Modulus

BoolAsU32(b) == IF b THEN 1 ELSE 0

\* ---- collaborators ----
HRPs == {"atoi", "iota"}

NoHrp == "none"

ValidAccountIndex(a) == a < HARDENED

\* account_path!: m/44'/4218'/a', every segment hardened (purpose and coin type
\* reduced to the scaled width).
AccountPath(a) == <<HARDENED + (44 % HARDENED), HARDENED + (4218 % HARDENED), HARDENED + a>>

Ed25519Address(p) == p

ToBech32(raw, hrp) == <<hrp, raw>>

\* ---- generate_address ----
\* Variant: the index segment is pushed before the chain-type segment.
GenerateAddressIndexFirst(p, index, internal, checks, accept) ==
  IF checks /\ (Overflows(AsU32(index), HARDENED) \/ Overflows(BoolAsU32(internal), HARDENED))
  THEN [outcome |-> "Panic", path |-> p, call |-> <<>>, address |-> <<>>]
  ELSE
    LET p2 == p \o <<WrappingAdd(AsU32(index), HARDENED),
                     WrappingAdd(BoolAsU32(internal), HARDENED)>> IN
    IF ~accept
    THEN [outcome |-> "KeyDerivationFailed", path |-> p2,
          call |-> <<p2>>, address |-> <<>>]
    ELSE [outcome |-> "Ok", path |-> p, call |-> <<p2>>,
          address |-> Ed25519Address(p2)]

\* checks: overflow checks are compiled in (debug profile), the addition
\* panics on overflow; otherwise (release profile) it wraps.
\* accept: whether the seed accepts the path.
GenerateAddress(p, index, internal, checks, accept) ==
  IF checks /\ Overflows(BoolAsU32(internal), HARDENED)
  THEN [outcome |-> "Panic", path |-> p, call |-> <<>>, address |-> <<>>]
  ELSE
    LET p1 == Append(p, WrappingAdd(BoolAsU32(internal), HARDENED)) IN
    IF checks /\ Overflows(AsU32(index), HARDENED)
    THEN [outcome |-> "Panic", path |-> p1, call |-> <<>>, address |-> <<>>]
    ELSE
      LET p2 == Append(p1, WrappingAdd(AsU32(index), HARDENED)) IN
      IF ~accept
      THEN [outcome |-> "KeyDerivationFailed", path |-> p2,
            call |-> <<p2>>, address |-> <<>>]
      ELSE [outcome |-> "Ok",
            path |-> SubSeq(p2, 1, Len(p2) - 2),
            call |-> <<p2>>,
            address |-> Ed25519Address(p2)]

\* The path generate_address hands to the seed (wrapping arithmetic).
DerivationPath(a, index, internal) ==
  AccountPath(a) \o <<WrappingAdd(BoolAsU32(internal), HARDENED),
                      WrappingAdd(AsU32(index), HARDENED)>>

\* ---- finish: keep the external entries, drop the tag ----
\* Variant: the filter keeps the internal entries.
RECURSIVE FilterInternal(_)
FilterInternal(as) ==
  IF as = <<>> THEN <<>>
  ELSE IF as[1][2] THEN <<as[1][1]>> \o FilterInternal(Tail(as))
       ELSE FilterInternal(Tail(as))

RECURSIVE FilterExternal(_)
FilterExternal(as) ==
  IF as = <<>> THEN <<>>
  ELSE IF ~as[1][2] THEN <<as[1][1]>> \o FilterExternal(Tail(as))
       ELSE FilterExternal(Tail(as))

\* ---- search_address: the scan loop ----
\* Variant: the counter advances on every entry.
RECURSIVE ScanCountAll(_, _, _, _)
ScanCountAll(as, k, index_counter, addr) ==
  IF k > Len(as) THEN [status |-> "InputAddressNotFound", value |-> <<>>]
  ELSE IF as[k][1] = addr
       THEN [status |-> "Ok", value |-> <<index_counter, as[k][2]>>]
       ELSE ScanCountAll(as, k + 1, index_counter + 1, addr)

\* Variant: the counter advances on internal entries.
RECURSIVE ScanCountInternal(_, _, _, _)
ScanCountInternal(as, k, index_counter, addr) ==
  IF k > Len(as) THEN [status |-> "InputAddressNotFound", value |-> <<>>]
  ELSE IF as[k][1] = addr
       THEN [status |-> "Ok", value |-> <<index_counter, as[k][2]>>]
       ELSE ScanCountInternal(as, k + 1,
                 IF as[k][2] THEN index_counter + 1 ELSE index_counter, addr)

\* Variant: entries are compared on the raw hash, the prefix is ignored.
RECURSIVE ScanRawOnly(_, _, _, _)
ScanRawOnly(as, k, index_counter, addr) ==
  IF k > Len(as) THEN [status |-> "InputAddressNotFound", value |-> <<>>]
  ELSE IF as[k][1][2] = addr[2]
       THEN [status |-> "Ok", value |-> <<index_counter, as[k][2]>>]
       ELSE ScanRawOnly(as, k + 1,
                 IF ~as[k][2] THEN index_counter + 1 ELSE index_counter, addr)

RECURSIVE Scan(_, _, _, _)
Scan(as, k, index_counter, addr) ==
  IF k > Len(as) THEN [status |-> "InputAddressNotFound", value |-> <<>>]
  ELSE IF as[k][1] = addr
       THEN [status |-> "Ok", value |-> <<index_counter, as[k][2]>>]
       ELSE Scan(as, k + 1,
                 IF ~as[k][2] THEN index_counter + 1 ELSE index_counter, addr)

\* ---- state ----
VARIABLES
  api,            \* "get_all", "finish" or "search_address"
  account_index,
  range,          \* <<start, end>>
  bech32_hrp,     \* the builder's explicit prefix, or NoHrp
  client,         \* TRUE iff a client was supplied
  target,         \* the address search_address looks for
  overflowChecks, \* build profile
  pc,
  path,
  hrp,            \* the prefix get_all encodes with, once known
  i,              \* loop variable of get_all
  address,        \* the external address of the current iteration
  addresses,
  seedCalls,      \* paths handed to seed.generate_private_key, in order
  hrpRequests,    \* number of get_bech32_hrp requests issued
  hrpResponses,   \* number of them that completed
  lastGen,        \* result of the last generate_address call, with the path before it
  getAllStatus,
  status,
  result

vars == <<api, account_index, range, bech32_hrp, client, target, overflowChecks,
          pc, path, hrp, i, address, addresses, seedCalls, hrpRequests,
          hrpResponses, lastGen, getAllStatus, status, result>>

inputs == <<api, account_index, range, bech32_hrp, client, target, overflowChecks>>

Segments == 0 .. (U32Modulus - 1)

TargetAccounts == {a \in 0 .. 1 : ValidAccountIndex(a)}

Targets ==
  {ToBech32(Ed25519Address(AccountPath(a) \o <<c, x>>), h) :
     a \in TargetAccounts, c \in {HARDENED, WrappingAdd(1, HARDENED)},
     x \in Segments, h \in HRPs}

DefaultTarget == ToBech32(Ed25519Address(AccountPath(0) \o <<HARDENED, HARDENED>>), "iota")

NoGen == [outcome |-> "none", path |-> <<>>, call |-> <<>>, address |-> <<>>, before |-> <<>>]

Init ==
  /\ api \in {"get_all", "finish", "search_address"}
  /\ account_index \in 0 .. MaxAccount
  /\ range \in (0 .. MaxIndex) \X (0 .. MaxIndex)
  /\ overflowChecks \in BOOLEAN
  /\ IF api = "search_address"
     THEN /\ bech32_hrp \in HRPs
          /\ client = FALSE
          /\ target \in Targets
     ELSE /\ bech32_hrp \in HRPs \cup {NoHrp}
          /\ client \in BOOLEAN
          /\ target = DefaultTarget
  /\ pc = "start"
  /\ path = <<>>
  /\ hrp = NoHrp
  /\ i = range[1]
  /\ address = <<>>
  /\ addresses = <<>>
  /\ seedCalls = <<>>
  /\ hrpRequests = 0
  /\ hrpResponses = 0
  /\ lastGen = NoGen
  /\ getAllStatus = "running"
  /\ status = "running"
  /\ result = <<>>

\* get_all line 84: build the account path, panicking when it does not parse.
BuildPath ==
  /\ pc = "start"
  /\ IF ValidAccountIndex(account_index)
     THEN /\ path' = AccountPath(account_index)
          /\ pc' = "prefix"
          /\ UNCHANGED <<getAllStatus, status>>
     ELSE /\ path' = path
          /\ pc' = "done"
          /\ getAllStatus' = "Panic"
          /\ status' = "Panic"
  /\ UNCHANGED <<inputs, hrp, i, address, addresses, seedCalls, hrpRequests,
                 hrpResponses, lastGen, result>>

\* Variant: a supplied client is asked even when a prefix was given.
ResolvePrefixAsksClient ==
  /\ pc = "prefix"
  /\ IF client
     THEN /\ hrpRequests' = hrpRequests + 1
          /\ pc' = "await"
          /\ UNCHANGED <<hrp, getAllStatus>>
     ELSE IF bech32_hrp # NoHrp
          THEN /\ hrp' = bech32_hrp
               /\ pc' = "loop"
               /\ UNCHANGED <<hrpRequests, getAllStatus>>
          ELSE /\ getAllStatus' = "MissingParameter"
               /\ pc' = "ret"
               /\ UNCHANGED <<hrp, hrpRequests>>
  /\ UNCHANGED <<inputs, path, i, address, addresses, seedCalls, hrpResponses,
                 lastGen, status, result>>

\* get_all lines 87-95, up to the await.
ResolvePrefix ==
  /\ pc = "prefix"
  /\ IF bech32_hrp # NoHrp
     THEN /\ hrp' = bech32_hrp
          /\ pc' = "loop"
          /\ UNCHANGED <<hrpRequests, getAllStatus>>
     ELSE IF ~client
          THEN /\ getAllStatus' = "MissingParameter"
               /\ pc' = "ret"
               /\ UNCHANGED <<hrp, hrpRequests>>
          ELSE /\ hrpRequests' = hrpRequests + 1
               /\ pc' = "await"
               /\ UNCHANGED <<hrp, getAllStatus>>
  /\ UNCHANGED <<inputs, path, i, address, addresses, seedCalls, hrpResponses,
                 lastGen, status, result>>

\* get_all line 93: the request completes with a prefix or with an error.
HrpResponse ==
  /\ pc = "await"
  /\ hrpResponses' = hrpResponses + 1
  /\ \/ \E h \in HRPs :
          /\ hrp' = h
          /\ pc' = "loop"
          /\ UNCHANGED getAllStatus
     \/ /\ getAllStatus' = "ConnectionError"
        /\ pc' = "ret"
        /\ UNCHANGED hrp
  /\ UNCHANGED <<inputs, path, i, address, addresses, seedCalls, hrpRequests,
                 lastGen, status, result>>

\* The seed is deterministic: a path it accepted before is accepted again.
SeedMayReject(p, index, internal) ==
  \A k \in 1 .. Len(seedCalls) :
     seedCalls[k] # p \o <<WrappingAdd(BoolAsU32(internal), HARDENED),
                            WrappingAdd(AsU32(index), HARDENED)>>

Generate(internal, okPc) ==
  \E accept \in BOOLEAN :
    /\ accept \/ SeedMayReject(path, i, internal)
    /\ LET g == GenerateAddress(path, i, internal, overflowChecks, accept) IN
         /\ path' = g.path
         /\ seedCalls' = seedCalls \o g.call
         /\ lastGen' = [outcome |-> g.outcome, path |-> g.path, call |-> g.call,
                        address |-> g.address, before |-> path]
         /\ IF g.outcome = "Ok"
            THEN /\ pc' = okPc
                 /\ IF internal
                    THEN /\ addresses' = addresses \o
                                <<<<ToBech32(address, hrp), FALSE>>,
                                  <<ToBech32(g.address, hrp), TRUE>>>>
                         /\ i' = i + 1
                         /\ address' = <<>>
                    ELSE /\ address' = g.address
                         /\ UNCHANGED <<addresses, i>>
                 /\ UNCHANGED <<getAllStatus, status>>
            ELSE IF g.outcome = "Panic"
            THEN /\ pc' = "done"
                 /\ getAllStatus' = "Panic"
                 /\ status' = "Panic"
                 /\ UNCHANGED <<addresses, i, address>>
            ELSE /\ pc' = "ret"
                 /\ getAllStatus' = g.outcome
                 /\ UNCHANGED <<addresses, i, address, status>>

\* get_all line 97.
GenerateExternal ==
  /\ pc = "loop"
  /\ i < range[2]
  /\ Generate(FALSE, "loop_internal")
  /\ UNCHANGED <<inputs, hrp, hrpRequests, hrpResponses, result>>

\* get_all lines 98-100.
GenerateInternal ==
  /\ pc = "loop_internal"
  /\ Generate(TRUE, "loop")
  /\ UNCHANGED <<inputs, hrp, hrpRequests, hrpResponses, result>>

\* get_all line 103.
LoopExit ==
  /\ pc = "loop"
  /\ i >= range[2]
  /\ getAllStatus' = "Ok"
  /\ pc' = "ret"
  /\ UNCHANGED <<inputs, path, hrp, i, address, addresses, seedCalls,
                 hrpRequests, hrpResponses, lastGen, status, result>>

\* What the caller of get_all makes of its result.
Outcome(a, gs, as, addr, r) ==
  IF gs # "Ok" THEN [status |-> gs, value |-> <<>>]
  ELSE IF a = "get_all" THEN [status |-> "Ok", value |-> as]
  ELSE IF a = "finish" THEN [status |-> "Ok", value |-> FilterExternal(as)]
  ELSE LET sc == Scan(as, 1, 0, addr) IN
         IF sc.status = "Ok" THEN sc ELSE [status |-> sc.status, value |-> r]

Return ==
  /\ pc = "ret"
  /\ LET o == Outcome(api, getAllStatus, addresses, target, range) IN
       /\ status' = o.status
       /\ result' = o.value
  /\ pc' = "done"
  /\ UNCHANGED <<inputs, path, hrp, i, address, addresses, seedCalls,
                 hrpRequests, hrpResponses, lastGen, getAllStatus>>

Next ==
  \/ BuildPath
  \/ ResolvePrefix
  \/ HrpResponse
  \/ GenerateExternal
  \/ GenerateInternal
  \/ LoopExit
  \/ Return

Spec == Init /\ [][Next]_vars

TypeOK ==
  /\ pc \in {"start", "prefix", "await", "loop", "loop_internal", "ret", "done"}
  /\ status \in {"running", "Ok", "MissingParameter", "ConnectionError",
                 "KeyDerivationFailed", "InputAddressNotFound", "Panic"}

\* ---- helpers of the properties ----
RangeLen == IF range[2] > range[1] THEN range[2] - range[1] ELSE 0

GetAllReturned == pc \in {"ret", "done"} /\ getAllStatus = "Ok"

Encoded(index, internal) ==
  ToBech32(Ed25519Address(DerivationPath(account_index, index, internal)), hrp)

Matches == {k \in 1 .. Len(addresses) : addresses[k][1] = target}

FirstMatch == CHOOSE k \in Matches : \A m \in Matches : k <= m

ExternalsBefore(k) == Cardinality({j \in 1 .. (k - 1) : ~addresses[j][2]})

PairwiseDistinct ==
  \A j, k \in 1 .. Len(addresses) : j # k => addresses[j][1] # addresses[k][1]

SearchDone == pc = "done" /\ api = "search_address" /\ getAllStatus = "Ok"

\* C1: when get_all returns a list for range [s, e), the list has 2*(e-s)
\* entries, entry 2j is the External address derived at index s+j and entry
\* 2j+1 the Internal address derived at index s+j (0-based); an empty range
\* gives the empty list.
C1_GetAllOrder ==
  GetAllReturned =>
    /\ Len(addresses) = 2 * RangeLen
    /\ \A j \in 0 .. (RangeLen - 1) :
         /\ addresses[2 * j + 1] = <<Encoded(range[1] + j, FALSE), FALSE>>
         /\ addresses[2 * j + 2] = <<Encoded(range[1] + j, TRUE), TRUE>>

C1_Witness ==
  /\ pc = "done" /\ api = "get_all" /\ status = "Ok"
  /\ range[1] > 0 /\ RangeLen >= 2
  /\ result = addresses /\ Len(result) = 2 * RangeLen

\* C2: searching for an address that occurs in the generated list returns, at
\* the first matching entry in generation order, the number of External
\* entries before the match together with the chain type of the match.
C2_SearchFirstMatch ==
  (SearchDone /\ Matches # {}) =>
    /\ status = "Ok"
    /\ result = <<ExternalsBefore(FirstMatch), addresses[FirstMatch][2]>>

C2_Witness ==
  /\ SearchDone /\ status = "Ok"
  /\ Cardinality(Matches) >= 2
  /\ FirstMatch >= 3

\* C3: given the list get_all returned, search_address ends with
\* InputAddressNotFound carrying the range, as an error value, exactly when
\* the target equals no entry of the list; otherwise it ends with a pair.
C3_NotFoundIffAbsent ==
  SearchDone =>
    /\ status \in {"Ok", "InputAddressNotFound"}
    /\ (status = "InputAddressNotFound") <=> (Matches = {})
    /\ status = "InputAddressNotFound" => result = range
    /\ status = "Ok" => Len(result) = 2 /\ result[2] \in BOOLEAN

\* same key material, other prefix
C3_Witness ==
  /\ SearchDone /\ status = "InputAddressNotFound" /\ result = range
  /\ \E k \in 1 .. Len(addresses) :
       /\ addresses[k][1][2] = target[2]
       /\ addresses[k][1][1] # target[1]

\* C4: with neither an explicit prefix nor a client, get_all fails with
\* MissingParameter and no private key has been requested from the seed, for
\* every account index and every range.
C4_MissingPrefixFailsFast ==
  (pc = "done" /\ bech32_hrp = NoHrp /\ ~client) =>
    /\ status = "MissingParameter"
    /\ seedCalls = <<>>

\* C5: no key derivation happens before the prefix is known; with an
\* explicit prefix the client is never contacted; without one, one request is
\* issued and has completed before the first derivation; if the request fails
\* the call fails with that error, zero derivations, no address list, and no
\* second request.
C5_PrefixBeforeDerivation ==
  /\ (seedCalls # <<>> \/ lastGen.outcome # "none") => hrp # NoHrp
  /\ bech32_hrp # NoHrp => hrpRequests = 0
  /\ hrpRequests <= 1
  /\ hrpResponses <= hrpRequests
  /\ (bech32_hrp = NoHrp /\ (seedCalls # <<>> \/ lastGen.outcome # "none")) =>
        (hrpRequests = 1 /\ hrpResponses = 1)
  /\ (bech32_hrp = NoHrp /\ client /\ pc \in {"await", "loop", "loop_internal", "ret"}) =>
        hrpRequests = 1
  /\ getAllStatus = "ConnectionError" =>
        /\ seedCalls = <<>> /\ lastGen.outcome = "none"
        /\ addresses = <<>>
        /\ hrpRequests = 1
        /\ pc = "done" => (status = "ConnectionError" /\ result = <<>>)

C5_Witness ==
  /\ pc = "done" /\ bech32_hrp = NoHrp /\ client
  /\ status = "Ok" /\ Len(seedCalls) >= 2
  /\ hrpRequests = 1 /\ hrpResponses = 1

C5_FailureWitness ==
  pc = "done" /\ status = "ConnectionError" /\ RangeLen > 0

\* C6: an account index that cannot be represented as a hardened segment
\* makes the call end with an InvalidAccountIndex error value.
C6_InvalidAccountIsError ==
  (pc = "done" /\ ~ValidAccountIndex(account_index)) =>
    status = "InvalidAccountIndex"

\* C7: finish returns the External entries of what get_all returns, without
\* the tag and in the same order: e-s entries, entry j being entry 2j of
\* get_all; it fails as get_all fails.
C7_FinishIsExternalFilter ==
  (pc = "done" /\ api = "finish") =>
    IF getAllStatus = "Ok"
    THEN /\ status = "Ok"
         /\ Len(result) = RangeLen
         /\ \A j \in 0 .. (RangeLen - 1) :
              /\ result[j + 1] = addresses[2 * j + 1][1]
              /\ ~addresses[2 * j + 1][2]
    ELSE status = getAllStatus /\ result = <<>>

C7_Witness ==
  /\ pc = "done" /\ api = "finish" /\ status = "Ok"
  /\ Len(result) >= 2 /\ Len(addresses) = 2 * Len(result)

\* C8: after every generate_address call, on every exit path, the path holds
\* exactly the segments it held before the call.
C8_PathBalance ==
  lastGen.outcome # "none" => (lastGen.path = lastGen.before /\ path = lastGen.before)

\* C9: every segment of every path used in a derivation has the hardened
\* bit set.
C9_AllSegmentsHardened ==
  \A k \in 1 .. Len(seedCalls) :
    \A m \in 1 .. Len(seedCalls[k]) : seedCalls[k][m] >= HARDENED

\* C10: when the generated addresses are pairwise distinct and the target is
\* the address derived at index i of the range [s, e), search_address returns
\* (i - s, External) for the External address and (i - s + 1, Internal) for
\* the Internal address of index i.
C10_SearchOffset ==
  (SearchDone /\ PairwiseDistinct) =>
    \A idx \in range[1] .. (range[2] - 1) :
      /\ target = Encoded(idx, FALSE) =>
           (status = "Ok" /\ result = <<idx - range[1], FALSE>>)
      /\ target = Encoded(idx, TRUE) =>
           (status = "Ok" /\ result = <<idx - range[1] + 1, TRUE>>)

C10_Witness ==
  /\ SearchDone /\ PairwiseDistinct /\ status = "Ok"
  /\ range[1] > 0
  /\ \E idx \in (range[1] + 1) .. (range[2] - 1) :
       target = Encoded(idx, TRUE) /\ result = <<idx - range[1] + 1, TRUE>>
====
